---- MODULE Spec2Model ----
(***************************************************************************)
(* MsgEthereumTx (x/evm/types/msg.go): construction, basic validation,     *)
(* EIP-155 signing, sender recovery with its cache, the memoized hash and  *)
(* the chain-id derivation.                                                *)
(*                                                                         *)
(* Numbers.  A math/big magnitude is the minimal big-endian byte string    *)
(* that big.Int.Bytes returns; a big.Int is [neg, abs].  All arithmetic is *)
(* done on the byte strings, so values beyond 2^64 are exact.              *)
(*                                                                         *)
(* Cryptography.  keccak256 and RLP are taken to be injective: a hash is   *)
(* [pre |-> the encoded tuple].  A 32-byte signature scalar is a token     *)
(* [key, hash, rid] naming the signature it belongs to; public-key         *)
(* recovery returns the signing key exactly when the hash and the recovery *)
(* id are those of the signature, and an unrelated public key otherwise.   *)
(***************************************************************************)
EXTENDS Integers, Sequences, FiniteSets, TLC

VARIABLES
    Data,    \* msg.Data: the nine transaction fields
    from,    \* msg.from: the cached sender, Nil or Ptr of a SigCache
    hash,    \* msg.hash: the memoized transaction hash
    size,    \* msg.size: the encoded size DecodeRLP stores
    peer,    \* the Data of a second transaction, Nil while there is none
    built,   \* history: the arguments the transaction was constructed from
    signed,  \* history: the last Sign call, Nil once the fields were replaced
    ret      \* the last call and what it returned

vars == <<Data, from, hash, size, peer, built, signed, ret>>

----------------------------------------------------------------------------
(* Byte strings and math/big *)

Max(a, b) == IF a >= b THEN a ELSE b

\* Leading zero bytes removed: the magnitude big.Int.SetBytes reads.
RECURSIVE Strip(_)
Strip(b) == IF b = <<>> THEN <<>> ELSE IF Head(b) = 0 THEN Strip(Tail(b)) ELSE b

\* b left-padded with zero bytes to n bytes (n >= Len(b)).
PadLeft(b, n) == [i \in 1..n |-> IF i <= n - Len(b) THEN 0 ELSE b[i - (n - Len(b))]]

\* The minimal big-endian bytes of a small natural number.
RECURSIVE NatOf(_)
NatOf(n) == IF n = 0 THEN <<>> ELSE Append(NatOf(n \div 256), n % 256)

\* Carry into byte i from the bytes to its right, adding two n-byte strings.
RECURSIVE CarryIn(_, _, _)
CarryIn(a, b, i) ==
    IF i = Len(a) THEN 0 ELSE (a[i + 1] + b[i + 1] + CarryIn(a, b, i + 1)) \div 256

NatAdd(a, b) ==
    LET n  == Max(Len(a), Len(b)) + 1
        pa == PadLeft(a, n)
        pb == PadLeft(b, n)
    IN  Strip([i \in 1..n |-> (pa[i] + pb[i] + CarryIn(pa, pb, i)) % 256])

\* Borrow out of byte i, subtracting b from a (both n bytes).
RECURSIVE BorrowIn(_, _, _)
BorrowIn(a, b, i) ==
    IF i = Len(a) THEN 0
    ELSE IF a[i + 1] - b[i + 1] - BorrowIn(a, b, i + 1) < 0 THEN 1 ELSE 0

\* a - b for magnitudes with a >= b.
NatSub(a, b) ==
    LET n  == Max(Len(a), Len(b))
        pa == PadLeft(a, n)
        pb == PadLeft(b, n)
    IN  Strip([i \in 1..n |-> (pa[i] - pb[i] - BorrowIn(pa, pb, i) + 256) % 256])

\* -1, 0, 1 as a < b, a = b, a > b (minimal byte strings).
RECURSIVE LexCmp(_, _)
LexCmp(a, b) ==
    IF a = <<>> THEN 0
    ELSE IF Head(a) < Head(b) THEN -1
    ELSE IF Head(a) > Head(b) THEN 1
    ELSE LexCmp(Tail(a), Tail(b))

NatCmp(a, b) ==
    IF Len(a) < Len(b) THEN -1 ELSE IF Len(a) > Len(b) THEN 1 ELSE LexCmp(a, b)

\* a * d for one byte d.
RECURSIVE MulCarry(_, _, _)
MulCarry(a, d, i) ==
    IF i = Len(a) THEN 0 ELSE (a[i + 1] * d + MulCarry(a, d, i + 1)) \div 256

NatMulByte(a, d) ==
    LET pa == PadLeft(a, Len(a) + 1)
    IN  Strip([i \in 1..Len(pa) |-> (pa[i] * d + MulCarry(pa, d, i)) % 256])

RECURSIVE NatMul(_, _)
NatMul(a, b) ==
    IF b = <<>> THEN <<>>
    ELSE NatAdd(NatMulByte(a, b[Len(b)]),
                LET hi == NatMul(a, SubSeq(b, 1, Len(b) - 1))
                IN  IF hi = <<>> THEN <<>> ELSE Append(hi, 0))

\* Remainder carried into byte i by the long division of a by the byte d.
RECURSIVE DivRem(_, _, _)
DivRem(a, d, i) == IF i = 1 THEN 0 ELSE (DivRem(a, d, i - 1) * 256 + a[i - 1]) % d

NatDivByte(a, d) ==
    Strip([i \in 1..Len(a) |-> (DivRem(a, d, i) * 256 + a[i]) \div d])

NatModByte(a, d) == DivRem(a, d, Len(a) + 1)

RECURSIVE Log2(_)
Log2(n) == IF n = 0 THEN 0 ELSE 1 + Log2(n \div 2)

\* big.Int values: sign and magnitude.
Big(neg, abs) == [neg |-> neg /\ abs # <<>>, abs |-> abs]

\* big.NewInt(n) for a small int n.
NewInt(n) == Big(n < 0, NatOf(IF n < 0 THEN -n ELSE n))

\* (*big.Int).SetBytes: the bytes read as a big-endian unsigned number.
SetBytes(b) == Big(FALSE, Strip(b))

\* (*big.Int).Bytes: the absolute value, big-endian, minimal; the sign is dropped.
Bytes(x) == x.abs

\* (*big.Int).Sign
BigSign(x) == IF x.abs = <<>> THEN 0 ELSE IF x.neg THEN -1 ELSE 1

BigAdd(x, y) ==
    IF x.neg = y.neg THEN Big(x.neg, NatAdd(x.abs, y.abs))
    ELSE IF NatCmp(x.abs, y.abs) >= 0 THEN Big(x.neg, NatSub(x.abs, y.abs))
    ELSE Big(y.neg, NatSub(y.abs, x.abs))

BigSub(x, y) == BigAdd(x, Big(~y.neg, y.abs))

BigMul(x, y) == Big(x.neg # y.neg, NatMul(x.abs, y.abs))

\* (*big.Int).Div by a positive one-byte divisor: Euclidean division.
BigDiv(x, y) ==
    LET d == y.abs[1]
        q == NatDivByte(x.abs, d)
    IN  IF x.neg /\ NatModByte(x.abs, d) # 0 THEN Big(TRUE, NatAdd(q, <<1>>))
        ELSE Big(x.neg, q)

\* (*big.Int).BitLen: the bit length of the absolute value.
BitLen(x) == IF x.abs = <<>> THEN 0 ELSE 8 * (Len(x.abs) - 1) + Log2(x.abs[1])

\* (*big.Int).Uint64: the low 64 bits of the absolute value (what the
\* implementation returns also where the documentation leaves it undefined).
Uint64(x) ==
    Strip(IF Len(x.abs) <= 8 THEN x.abs ELSE SubSeq(x.abs, Len(x.abs) - 7, Len(x.abs)))

\* 2^64 as a magnitude.
TwoTo64 == <<1, 0, 0, 0, 0, 0, 0, 0, 0>>

\* uint64 subtraction, wrapping modulo 2^64.
U64Sub(a, b) ==
    IF NatCmp(a, b) >= 0 THEN NatSub(a, b) ELSE NatSub(NatAdd(a, TwoTo64), b)

\* byte(x) of a uint64: its low 8 bits.
ToByte(u) == IF u = <<>> THEN 0 ELSE u[Len(u)]

\* new(big.Int).SetUint64(u)
SetUint64(u) == Big(FALSE, u)

----------------------------------------------------------------------------
(* Values *)

\* A Go pointer: nil, or a pointer to x.
Nil == <<>>
Ptr(x) == <<x>>

\* ethcmn.Address{}: twenty zero bytes.
ZeroAddress == [i \in 1..20 |-> 0]

\* ethcmn.BytesToAddress: the last 20 bytes of b, left-padded with zeros.
BytesToAddress(b) ==
    IF Len(b) > 20 THEN SubSeq(b, Len(b) - 19, Len(b)) ELSE PadLeft(b, 20)

\* keccak256 of an encoding, injective.  NoHash is a hash field with no bytes;
\* ZeroHash is the zero value of the 32-byte ethcmn.Hash.
NoHash == [pre |-> <<>>]
ZeroHash == [pre |-> <<0>>]
Keccak256(enc) == [pre |-> enc]

\* A signature scalar (R or S): the zero scalar, or the scalar of the signature
\* that key made over hash with recovery id rid.
EmptyScalar == [part |-> "", key |-> "", hash |-> NoHash, rid |-> 0]
Scalar(part, key, h, rid) == [part |-> part, key |-> key, hash |-> h, rid |-> rid]

\* An account address derived from a public key; NoSender is the zero
\* address a failed recovery returns.
NoPub == [key |-> "", ctx |-> <<>>]
PubKey(key) == [key |-> key, ctx |-> <<>>]
NoSender == [acct |-> NoPub]

\* ethcrypto.Keccak256(pub[1:])[12:]
PubkeyToAddress(pub) == [acct |-> pub]

KeyAddress(key) == PubkeyToAddress(PubKey(key))

----------------------------------------------------------------------------
(* RLP *)

\* rlpHash: keccak256 of the RLP encoding, the encoding being the tuple of
\* the encoded items.
rlpHash(items) == Keccak256(items)

\* Encoded length of a byte string.
RlpStringSize(b) ==
    IF Len(b) = 1 /\ b[1] < 128 THEN 1
    ELSE IF Len(b) < 56 THEN 1 + Len(b)
    ELSE 1 + Len(NatOf(Len(b))) + Len(b)

\* Encoded length of a scalar: 32 bytes, or the empty string.
RlpScalarSize(x) == IF x = EmptyScalar THEN 1 ELSE 33

\* Encoded length of the nine fields of TxData, without the list header.
RlpContentSize(d) ==
    RlpStringSize(NatOf(d.AccountNonce)) + RlpStringSize(d.Price)
    + RlpStringSize(NatOf(d.GasLimit)) + RlpStringSize(d.Recipient)
    + RlpStringSize(d.Amount) + RlpStringSize(d.Payload)
    + RlpStringSize(d.V) + RlpScalarSize(d.R) + RlpScalarSize(d.S)

\* rlp.ListSize: content plus the list header.
ListSize(n) == IF n < 56 THEN n + 1 ELSE n + 1 + Len(NatOf(n))

\* rlp.Encode(w, &msg.Data): the nine fields as stored.
EncodeRLP(d) ==
    <<d.AccountNonce, d.Price, d.GasLimit, d.Recipient, d.Amount, d.Payload,
      d.V, d.R, d.S>>

----------------------------------------------------------------------------
(* The message and its pure methods *)

\* The record a call leaves in ret; each call fills the fields it returns
\* (cached: the sender cache VerifySig found when it was called).
Ret(op) ==
    [op |-> op, chainId |-> NewInt(0), key |-> "", rid |-> 0, addr |-> NoSender,
     err |-> "", panic |-> FALSE, recovered |-> FALSE, ecrecover |-> FALSE,
     num |-> NewInt(0), sum |-> NoHash, sum2 |-> NoHash, to |-> Nil, cached |-> Nil]

\* What newMsgEthereumTx was called with (history only).
NoArgs == [ctor |-> "", to |-> Nil, amount |-> Nil, gasPrice |-> Nil]

\* to.Bytes() dereferences to: a nil recipient panics.
RecipientPanics(to) == to = Nil

\* The TxData newMsgEthereumTx builds (to is not nil).
newMsgEthereumTx(nonce, to, amount, gasLimit, gasPrice, payload) ==
    [AccountNonce |-> nonce,
     Recipient    |-> to[1],
     Payload      |-> payload,
     GasLimit     |-> gasLimit,
     Amount       |-> IF amount # Nil THEN Bytes(amount[1]) ELSE <<>>,
     Price        |-> IF gasPrice # Nil THEN Bytes(gasPrice[1]) ELSE <<>>,
     V            |-> <<>>,
     R            |-> EmptyScalar,
     S            |-> EmptyScalar]

\* ValidateBasic's result: the error, or "" for nil.
validateBasic(d) ==
    IF BigSign(SetBytes(d.Price)) # 1 THEN "price must be positive"
    ELSE IF BigSign(SetBytes(d.Amount)) = -1 THEN "amount cannot be negative"
    ELSE ""

\* To's result: always the address of a local variable.
to(d) == Ptr(BytesToAddress(d.Recipient))

\* The signing hash for chainID.
RLPSignBytes(d, chainID) ==
    rlpHash(<<d.AccountNonce,
              Bytes(SetBytes(d.Price)),
              d.GasLimit,
              BytesToAddress(d.Recipient),
              Bytes(SetBytes(d.Amount)),
              d.Payload,
              Bytes(chainID),
              EmptyScalar,
              EmptyScalar>>)

\* deriveChainID without the arbitrary-precision branch: V cut to 64 bits.
deriveChainID64(v) ==
    LET u == Uint64(v)
    IN  IF u = NatOf(27) \/ u = NatOf(28) THEN NewInt(0)
        ELSE SetUint64(NatDivByte(U64Sub(u, NatOf(35)), 2))

deriveChainID(v) ==
    IF BitLen(v) <= 64
    THEN LET u == Uint64(v)
         IN  IF u = NatOf(27) \/ u = NatOf(28) THEN NewInt(0)
             ELSE SetUint64(NatDivByte(U64Sub(u, NatOf(35)), 2))
    ELSE BigDiv(BigSub(v, NewInt(35)), NewInt(2))

----------------------------------------------------------------------------
(* Signatures *)

big8 == NewInt(8)

\* ethcrypto.Sign fails on a private key that is not a valid scalar.
ValidKey(priv) == priv # "bad"

\* The recovery value Sign stores for recovery id rid (sig[64]).
SignV(chainID, rid) ==
    IF BigSign(chainID) = 0
    THEN SetBytes(<<(rid + 27) % 256>>)
    ELSE BigAdd(NewInt((rid + 35) % 256), BigMul(chainID, NewInt(2)))

\* ethcrypto.ValidateSignatureValues(v, r, s, true) on scalars a signer made
\* (in range, low S): both non-zero and v 0 or 1.
ValidateSignatureValues(v, r, s) ==
    r # EmptyScalar /\ s # EmptyScalar /\ (v = 0 \/ v = 1)

\* ethcrypto.Ecrecover: the signer's key when r and s are the signature over
\* sigHash and v is its recovery id; some other valid key if not.
Ecrecover(sigHash, r, s, v) ==
    IF /\ r.part = "R" /\ s.part = "S"
       /\ r.key = s.key /\ r.hash = s.hash /\ r.rid = s.rid
       /\ r.hash = sigHash /\ r.rid = v
    THEN PubKey(r.key)
    ELSE [key |-> "?", ctx |-> <<sigHash, r, s, v>>]

\* recoverEthSig: [addr, err, ecrecover (whether Ecrecover was called)].
recoverEthSig(R, S, Vb, sigHash) ==
    IF BitLen(Vb) > 8
    THEN [addr |-> NoSender, err |-> "invalid signature", ecrecover |-> FALSE]
    ELSE LET V == ToByte(U64Sub(Uint64(Vb), NatOf(27)))
         IN  IF ~ValidateSignatureValues(V, R, S)
             THEN [addr |-> NoSender, err |-> "invalid signature", ecrecover |-> FALSE]
             ELSE LET pub == Ecrecover(sigHash, R, S, V)
                  IN  IF pub = NoPub
                      THEN [addr |-> NoSender, err |-> "invalid public key",
                            ecrecover |-> TRUE]
                      ELSE [addr |-> PubkeyToAddress(pub), err |-> "",
                            ecrecover |-> TRUE]

\* ethtypes.NewEIP155Signer
NewEIP155Signer(chainID) ==
    [chainId |-> chainID, chainIdMul |-> BigMul(chainID, NewInt(2))]

\* EIP155Signer.Equal: the chain ids compare equal.
SignerEqual(s1, s2) == s1.chainId = s2.chainId

\* A cache that only remembers that a sender was recovered.
CacheHitAnySigner(signer) == from # Nil

\* The cache answers for signer.
CacheHit(signer) == from # Nil /\ SignerEqual(signer, from[1].signer)

\* VerifySig without the refusal of chain id 0.
ChainIDNeverZero(chainID) == FALSE

\* VerifySig refuses an unprotected chain id.
ChainIDIsZero(chainID) == BigSign(chainID) = 0

\* len(msg.hash.Bytes()) == 0.  A hash field with no bytes reads as empty; a
\* 32-byte ethcmn.Hash, zero or not, never does.
HashIsEmpty(h) == h = NoHash

----------------------------------------------------------------------------
(* Operations *)

\* NewMsgEthereumTx: a fresh message, or a panic on the nil recipient.
Construct(ctor, nonce, recipient, amount, gasLimit, gasPrice, payload) ==
    IF RecipientPanics(recipient)
    THEN /\ ret' = [Ret(ctor) EXCEPT !.panic = TRUE]
         /\ UNCHANGED <<Data, from, hash, size, peer, built, signed>>
    ELSE /\ Data' = newMsgEthereumTx(nonce, recipient, amount, gasLimit, gasPrice, payload)
         /\ from' = Nil
         /\ hash' = NoHash
         /\ size' = 0
         /\ built' = [ctor |-> ctor, to |-> recipient, amount |-> amount,
                      gasPrice |-> gasPrice]
         /\ signed' = Nil
         /\ ret' = Ret(ctor)
         /\ UNCHANGED peer

NewMsgEthereumTx(nonce, recipient, amount, gasLimit, gasPrice, payload) ==
    Construct("NewMsgEthereumTx", nonce, recipient, amount, gasLimit, gasPrice, payload)

\* NewMsgEthereumTxContract passes a nil recipient.
NewMsgEthereumTxContract(nonce, amount, gasLimit, gasPrice, payload) ==
    Construct("NewMsgEthereumTxContract", nonce, Nil, amount, gasLimit, gasPrice, payload)

ValidateBasic ==
    /\ ret' = [Ret("ValidateBasic") EXCEPT !.err = validateBasic(Data)]
    /\ UNCHANGED <<Data, from, hash, size, peer, built, signed>>

To ==
    /\ ret' = [Ret("To") EXCEPT !.to = to(Data)]
    /\ UNCHANGED <<Data, from, hash, size, peer, built, signed>>

\* DecodeRLP from a stream: Nil is the empty stream (Kind fails), Ptr(d) the
\* encoding of the nine fields d.
DecodeRLP(s) ==
    IF s = Nil
    THEN /\ ret' = [Ret("DecodeRLP") EXCEPT !.err = "EOF"]
         /\ UNCHANGED <<Data, from, hash, size, peer, built, signed>>
    ELSE /\ Data' = s[1]
         /\ size' = ListSize(RlpContentSize(s[1]))
         /\ built' = NoArgs
         /\ signed' = Nil
         /\ ret' = Ret("DecodeRLP")
         /\ UNCHANGED <<from, hash, peer>>

Hash ==
    /\ hash' = IF HashIsEmpty(hash) THEN rlpHash(EncodeRLP(Data)) ELSE hash
    /\ ret' = [Ret("Hash") EXCEPT !.sum = hash']
    /\ UNCHANGED <<Data, from, size, peer, built, signed>>

\* Sign with the recovery id rid that ethcrypto.Sign returns in sig[64].
Sign(chainID, priv, rid) ==
    IF ~ValidKey(priv)
    THEN /\ ret' = [Ret("Sign") EXCEPT !.chainId = chainID, !.key = priv, !.panic = TRUE]
         /\ UNCHANGED <<Data, from, hash, size, peer, built, signed>>
    ELSE LET txHash == RLPSignBytes(Data, chainID)
         IN  /\ Data' = [Data EXCEPT !.V = Bytes(SignV(chainID, rid)),
                                     !.R = Scalar("R", priv, txHash, rid),
                                     !.S = Scalar("S", priv, txHash, rid)]
             /\ signed' = Ptr([chainId |-> chainID, key |-> priv, rid |-> rid])
             /\ ret' = [Ret("Sign") EXCEPT !.chainId = chainID, !.key = priv, !.rid = rid]
             /\ UNCHANGED <<from, hash, size, peer, built>>

\* The cache keeps sender.Bytes() and a hit returns BytesToAddress of them:
\* the same 20 bytes, here the same address value.
VerifySig(chainID) ==
    LET r == Data.R
        s == Data.S
        v == SetBytes(Data.V)
        signer == NewEIP155Signer(chainID)
        done == [Ret("VerifySig") EXCEPT !.chainId = chainID, !.cached = from]
    IN  IF CacheHit(signer)
        THEN /\ ret' = [done EXCEPT !.addr = from[1].from]
             /\ UNCHANGED <<Data, from, hash, size, peer, built, signed>>
        ELSE IF ChainIDIsZero(chainID)
        THEN /\ ret' = [done EXCEPT !.err = "chainID cannot be zero"]
             /\ UNCHANGED <<Data, from, hash, size, peer, built, signed>>
        ELSE LET chainIDMul == BigMul(chainID, NewInt(2))
                 V == BigSub(BigSub(v, chainIDMul), big8)
                 sigHash == RLPSignBytes(Data, chainID)
                 rec == recoverEthSig(r, s, V, sigHash)
             IN  /\ from' = IF rec.err # "" THEN from
                            ELSE Ptr([signer |-> signer, from |-> rec.addr])
                 /\ ret' = [done EXCEPT !.addr = rec.addr, !.err = rec.err,
                                        !.recovered = TRUE,
                                        !.ecrecover = rec.ecrecover]
                 /\ UNCHANGED <<Data, hash, size, peer, built, signed>>

ChainID ==
    /\ ret' = [Ret("ChainID") EXCEPT !.num = deriveChainID(SetBytes(Data.V))]
    /\ UNCHANGED <<Data, from, hash, size, peer, built, signed>>

\* RLPSignBytes of this transaction and of the second one, for one chain id.
SignBytesOfBoth(chainID) ==
    /\ ret' = [Ret("RLPSignBytes") EXCEPT !.chainId = chainID,
                                          !.sum = RLPSignBytes(Data, chainID),
                                          !.sum2 = RLPSignBytes(peer, chainID)]
    /\ UNCHANGED <<Data, from, hash, size, peer, built, signed>>

----------------------------------------------------------------------------
(* Inputs *)

MaxNonce == 1
MaxAmount == 1
MaxV == 100

Keys == {"k1", "k2"}
PrivInputs == Keys \cup {"bad"}
RecoveryIds == {0, 1}

RecipientA == [i \in 1..20 |-> IF i = 20 THEN 1 ELSE 0]

GasLimits == {21000}

\* 0, 1, 5, two ids 27 and 28 above 1, 2^40 + 7, 2^63 - 18 (V reaches 2^64 - 1
\* and 2^64) and 2^63 + 5.
ChainIDInputs ==
    {NewInt(0), NewInt(1), NewInt(5), NewInt(28), NewInt(29),
     Big(FALSE, <<1, 0, 0, 0, 0, 7>>),
     Big(FALSE, <<127, 255, 255, 255, 255, 255, 255, 238>>),
     Big(FALSE, <<128, 0, 0, 0, 0, 0, 0, 5>>)}

\* The chain ids a transaction is signed for where its sender is recovered.
SignChainIDs == {NewInt(0), NewInt(1), Big(FALSE, <<128, 0, 0, 0, 0, 0, 0, 5>>)}

\* The chain ids recovery is tried with: those, and 28 (a transaction signed
\* for chain 1 has V - 2*28 - 8 = -27 or -26).
VerifyChainIDs ==
    SignChainIDs \cup {NewInt(28)}

\* *big.Int arguments: nil, or a value in -MaxAmount..MaxAmount.
BigInputs == {Nil} \cup {Ptr(NewInt(n)) : n \in (0 - MaxAmount)..MaxAmount}

\* *ethcmn.Address arguments.
ToInputs == {Nil, Ptr(ZeroAddress), Ptr(RecipientA)}

\* Transactions as a client builds them: one unit of gas price, no value.
InitData ==
    {newMsgEthereumTx(n, Ptr(RecipientA), Ptr(NewInt(0)), g, Ptr(NewInt(1)), <<>>) :
        n \in 0..MaxNonce, g \in GasLimits}

\* d as it arrives signed by k1 for chain 1 (recovery id 0), with v in the V slot.
Wire(d, v) ==
    [d EXCEPT !.V = v,
              !.R = Scalar("R", "k1", RLPSignBytes(d, NewInt(1)), 0),
              !.S = Scalar("S", "k1", RLPSignBytes(d, NewInt(1)), 0)]

\* Streams DecodeRLP reads: the empty one; the signed transaction with the
\* right V (37), the other recovery id and a V with a leading zero byte.
Streams ==
    {Nil} \cup {Ptr(Wire(d, v)) : d \in InitData, v \in {<<37>>, <<38>>, <<0, 37>>}}

\* Streams whose V slot holds each value up to MaxV, and values around 2^64.
VStreams ==
    {Ptr([d EXCEPT !.V = v]) :
        d \in InitData,
        v \in {NatOf(n) : n \in 0..MaxV}
              \cup {<<255, 255, 255, 255, 255, 255, 255, 255>>, TwoTo64,
                    NatAdd(TwoTo64, NatOf(36)), NatAdd(TwoTo64, NatOf(37))}}

\* Stored fields of the two transactions compared: prices and amounts with
\* and without a leading zero byte, an empty and an all-zero recipient.
PairData ==
    {[AccountNonce |-> n, Price |-> p, GasLimit |-> g, Recipient |-> r,
      Amount |-> a, Payload |-> pl, V |-> <<>>, R |-> EmptyScalar, S |-> EmptyScalar] :
        n \in 0..MaxNonce, p \in {<<1>>, <<0, 1>>, <<2>>}, g \in GasLimits,
        r \in {<<>>, ZeroAddress, RecipientA}, a \in {<<>>, <<0>>, <<1>>},
        pl \in {<<>>, <<1>>}}

----------------------------------------------------------------------------
(* Specifications *)

\* A constructed, unsigned transaction, but for its hash field.
InitMsg ==
    /\ Data \in InitData
    /\ from = Nil
    /\ size = 0
    /\ peer = Nil
    /\ built = [ctor |-> "NewMsgEthereumTx", to |-> Ptr(RecipientA),
                amount |-> Ptr(NewInt(0)), gasPrice |-> Ptr(NewInt(1))]
    /\ signed = Nil
    /\ ret = Ret("NewMsgEthereumTx")

Init == InitMsg /\ hash = NoHash

\* The declaration of the hash field is not part of this file: it starts
\* with no bytes, or as the 32 zero bytes of an ethcmn.Hash.
InitHash == InitMsg /\ hash \in {NoHash, ZeroHash}

\* Signing and sender recovery on one transaction.
Next ==
    \/ \E c \in SignChainIDs, k \in PrivInputs, rid \in RecoveryIds : Sign(c, k, rid)
    \/ \E c \in VerifyChainIDs : VerifySig(c)
    \/ \E s \in Streams : DecodeRLP(s)

Spec == Init /\ [][Next]_vars

\* The memoized hash under signing and decoding.
NextHash ==
    \/ \E c \in SignChainIDs, k \in PrivInputs, rid \in RecoveryIds : Sign(c, k, rid)
    \/ Hash
    \/ \E s \in Streams : DecodeRLP(s)

SpecHash == InitHash /\ [][NextHash]_vars

\* Construction, basic validation and the recipient accessor.
NextBasic ==
    \/ \E n \in 0..MaxNonce, t \in ToInputs, a \in BigInputs, g \in GasLimits,
          p \in BigInputs :
            NewMsgEthereumTx(n, t, a, g, p, <<>>)
    \/ \E n \in 0..MaxNonce, a \in BigInputs, g \in GasLimits, p \in BigInputs :
            NewMsgEthereumTxContract(n, a, g, p, <<>>)
    \/ ValidateBasic
    \/ To
    \/ \E s \in {Ptr([d EXCEPT !.Recipient = <<>>]) : d \in InitData} : DecodeRLP(s)

SpecBasic == Init /\ [][NextBasic]_vars

\* Signing for every chain id, and the chain id read back.
NextSign ==
    \/ \E c \in ChainIDInputs, k \in PrivInputs, rid \in RecoveryIds : Sign(c, k, rid)
    \/ ChainID

SpecSign == Init /\ [][NextSign]_vars

\* deriveChainID over the V values a decoded transaction can hold.
NextDerive ==
    \/ \E s \in VStreams : DecodeRLP(s)
    \/ ChainID

SpecDerive == Init /\ [][NextDerive]_vars

\* RLPSignBytes of two transactions.
InitPair ==
    /\ Data \in PairData
    /\ peer \in PairData
    /\ from = Nil
    /\ hash = NoHash
    /\ size = 0
    /\ built = NoArgs
    /\ signed = Nil
    /\ ret = Ret("DecodeRLP")

NextPair == \E c \in {NewInt(1), NewInt(5)} : SignBytesOfBoth(c)

SpecPair == InitPair /\ [][NextPair]_vars

----------------------------------------------------------------------------
(* Properties *)

IsVerify == ret.op = "VerifySig"

\* The cache entry a successful recovery for chainID stores.
Entry(chainID, addr) == Ptr([signer |-> NewEIP155Signer(chainID), from |-> addr])

\* C1: a VerifySig(chainId) that follows Sign(chainId, key), chainId > 0, with
\* no change of the fields in between, returns without error the address of
\* key, whatever was signed or verified before.
C1_SignVerifyInverse ==
    (/\ IsVerify
     /\ signed # Nil
     /\ BigSign(ret.chainId) = 1
     /\ ret.chainId = signed[1].chainId)
        => (ret.err = "" /\ ret.addr = KeyAddress(signed[1].key))

\* C2 as stated: after a VerifySig that returned an address, a VerifySig with
\* the same chain id returns that address without running the recovery, and a
\* VerifySig with any other chain id runs recoverEthSig again and, when it
\* succeeds, stores the new (signer, address) pair.
C2_Original ==
    [][(ret.op = "VerifySig" /\ ret.err = "" /\ ret'.op = "VerifySig")
        => IF ret'.chainId = ret.chainId
           THEN ret'.addr = ret.addr /\ ret'.err = "" /\ ~ret'.recovered
           ELSE /\ ret'.recovered
                /\ ret'.err = "" => from' = Entry(ret'.chainId, ret'.addr)]_vars

\* C2 amended: the same, except that a following VerifySig with chain id 0
\* returns the invalid-chain-id error without running recoverEthSig and
\* leaves the cache as it was; with any other different chain id it runs
\* recoverEthSig again, replaces the cache on success and keeps it on failure.
C2_CacheCorrectness ==
    [][(ret.op = "VerifySig" /\ ret.err = "" /\ ret'.op = "VerifySig")
        => IF ret'.chainId = ret.chainId
           THEN ret'.addr = ret.addr /\ ret'.err = "" /\ ~ret'.recovered
                /\ from' = from
           ELSE IF BigSign(ret'.chainId) = 0
           THEN /\ ret'.err = "chainID cannot be zero"
                /\ ret'.addr = NoSender
                /\ ~ret'.recovered
                /\ from' = from
           ELSE /\ ret'.recovered
                /\ ret'.err = "" => from' = Entry(ret'.chainId, ret'.addr)
                /\ ret'.err # "" => from' = from /\ ret'.addr = NoSender]_vars

\* A recovery for one chain id replaced the cache entry of another.
C2_Witness ==
    /\ IsVerify
    /\ ret.cached # Nil
    /\ ret.cached[1].signer.chainId # ret.chainId
    /\ ret.recovered
    /\ ret.err = ""
    /\ from = Entry(ret.chainId, ret.addr)
    /\ from # ret.cached

\* C3: VerifySig(0) returns the invalid-chain-id error and the zero address
\* in every state, whatever was signed and whatever the cache holds.
C3_UnprotectedRefused ==
    (IsVerify /\ BigSign(ret.chainId) = 0)
        => /\ ret.err = "chainID cannot be zero"
           /\ ret.addr = NoSender
           /\ ~ret.recovered

\* VerifySig(0) on a transaction signed with chain id 0 while the cache holds
\* a sender.
C3_Witness ==
    /\ IsVerify
    /\ BigSign(ret.chainId) = 0
    /\ signed # Nil
    /\ BigSign(signed[1].chainId) = 0
    /\ from # Nil

\* C4: Hash() returns the hash of the wire encoding of the nine current
\* fields, after any sequence of Hash and Sign calls.
C4_HashIsCurrent ==
    ret.op = "Hash" => ret.sum = rlpHash(EncodeRLP(Data))

\* Whether a *big.Int argument is below zero / at most zero (nil counts as 0).
ArgNegative(x) == x # Nil /\ BigSign(x[1]) = -1
ArgNotPositive(x) == x = Nil \/ BigSign(x[1]) # 1

\* C5: ValidateBasic on a transaction built by NewMsgEthereumTx returns an
\* error exactly when the gas price given was <= 0 (or absent) or the amount
\* given was negative.
C5_ValidateBasic ==
    (ret.op = "ValidateBasic" /\ built.ctor = "NewMsgEthereumTx")
        => (ret.err # "" <=> (ArgNotPositive(built.gasPrice) \/ ArgNegative(built.amount)))

\* C6: NewMsgEthereumTxContract returns a transaction, whose recipient slot is
\* not the all-zero address's, and To() is nil exactly for a transaction with
\* no recipient.
C6_ContractCreation ==
    /\ ret.op = "NewMsgEthereumTxContract"
        => (~ret.panic /\ built.to = Nil /\ Data.Recipient # ZeroAddress)
    /\ ret.op = "To" => (ret.to = Nil <=> Data.Recipient = <<>>)

\* C7: Sign stores V = rid + 27 for chain id 0 and V = rid + 35 + 2*chainId
\* otherwise, and ChainID() on the signed transaction returns chainId.
C7_ChainIdInversion ==
    /\ (ret.op = "Sign" /\ ~ret.panic)
        => /\ signed = Ptr([chainId |-> ret.chainId, key |-> ret.key, rid |-> ret.rid])
           /\ Data.V = Bytes(IF ret.chainId = NewInt(0) THEN NewInt(ret.rid + 27)
                             ELSE BigAdd(NewInt(ret.rid + 35),
                                         BigAdd(ret.chainId, ret.chainId)))
    /\ (ret.op = "ChainID" /\ signed # Nil) => ret.num = signed[1].chainId

\* ChainID() on a transaction signed for a chain id above 2^63, V above 2^64.
C7_Witness ==
    /\ ret.op = "ChainID"
    /\ signed # Nil
    /\ BitLen(signed[1].chainId) = 64
    /\ BitLen(SetBytes(Data.V)) > 64
    /\ ret.num = signed[1].chainId

\* q is (v - 35) / 2, rounded down or towards zero.
IsHalfOf(q, v) ==
    LET rest == BigSub(BigSub(v, NewInt(35)), BigAdd(q, q))
    IN  rest \in {NewInt(-1), NewInt(0), NewInt(1)}

\* C8: ChainID() is 0 for V = 27 and 28 and (V - 35) / 2 for every other V,
\* V below 35 included.
C8_DeriveFormula ==
    ret.op = "ChainID"
        => LET v == SetBytes(Data.V)
           IN  IF v = NewInt(27) \/ v = NewInt(28) THEN ret.num = NewInt(0)
               ELSE IsHalfOf(ret.num, v)

\* C9: with an empty cache and chainId > 0, VerifySig returns an address only
\* if V is 35 + 2*chainId or 36 + 2*chainId, and for every other V returns the
\* invalid-signature error without attempting the public-key recovery.
C9_RecoveryIdRange ==
    (IsVerify /\ ret.cached = Nil /\ BigSign(ret.chainId) = 1)
        => LET twice == BigAdd(ret.chainId, ret.chainId)
               inRange == SetBytes(Data.V) \in {BigAdd(NewInt(35), twice),
                                                BigAdd(NewInt(36), twice)}
           IN  /\ ret.err = "" => inRange
               /\ ~inRange => (ret.err = "invalid signature" /\ ~ret.ecrecover)

\* The six signed fields as stored.
StoredFields(d) ==
    <<d.AccountNonce, d.Price, d.GasLimit, d.Recipient, d.Amount, d.Payload>>

\* C10: for one chain id, transactions whose stored fields differ have
\* different signing hashes.
C10_SignBytesInjective ==
    (ret.op = "RLPSignBytes" /\ StoredFields(Data) # StoredFields(peer))
        => ret.sum # ret.sum2

====
